---- MODULE Spec2Model ----
(***************************************************************************)
(* Model of the scan session find() of bleak/backends/dotnet/search.py:    *)
(* the async generator (consumer), the Received callback that runs on      *)
(* platform worker threads (producer), the stop timer and the platform     *)
(* advertisement watcher.  The filter code and the decoding of an event    *)
(* are also applied to single calls and single events, and discover() of   *)
(* bleak/backends/dotnet/discovery.py has a specification of its own.      *)
(***************************************************************************)
EXTENDS Integers, Sequences, FiniteSets, TLC

\* ---------------------------------------------------------------- bounds
\* Number of Received callbacks the platform delivers in one session.
MaxEvents == 3

\* Platform worker threads that run the Received callback.
Threads == {"w1", "w2"}

\* ------------------------------------------------------------------ text
\* A Python str on which the code works character by character is given as
\* the sequence of its characters; Show turns such a sequence into a str.
RECURSIVE Show(_)
Show(s) == IF Len(s) = 0 THEN "" ELSE Head(s) \o Show(Tail(s))

\* str.upper() and str.lower(), for the characters that occur.
Upper(c) ==
    CASE c = "a" -> "A" [] c = "b" -> "B" [] c = "c" -> "C" [] c = "d" -> "D"
      [] c = "e" -> "E" [] c = "f" -> "F" [] c = "g" -> "G" [] c = "n" -> "N"
      [] c = "x" -> "X" [] OTHER -> c
Lower(c) ==
    CASE c = "A" -> "a" [] c = "B" -> "b" [] c = "C" -> "c" [] c = "D" -> "d"
      [] c = "E" -> "e" [] c = "F" -> "f" [] c = "G" -> "g" [] c = "N" -> "n"
      [] c = "X" -> "x" [] OTHER -> c
UpperText(s) == [i \in 1..Len(s) |-> Upper(s[i])]
LowerText(s) == [i \in 1..Len(s) |-> Lower(s[i])]

\* The character class [A-F\d] of line 524.
IsHexUpper(c) ==
    c \in {"0", "1", "2", "3", "4", "5", "6", "7", "8", "9",
           "A", "B", "C", "D", "E", "F"}

\* ":".join(s[i:i + 2] for i in range(0, len(s), 2))  (lines 436 and 525)
RECURSIVE JoinPairs(_)
JoinPairs(s) ==
    IF Len(s) <= 2 THEN s
    ELSE SubSeq(s, 1, 2) \o <<":">> \o JoinPairs(SubSeq(s, 3, Len(s)))

\* MacNormalize without mac.upper().
MacNormalize_NoUpper(s) == JoinPairs(SelectSeq(s, IsHexUpper))
\* Lines 524-525: mac = re.sub(r"[^A-F\d]", "", mac.upper()), then the join.
MacNormalize(s) == JoinPairs(SelectSeq(UpperText(s), IsHexUpper))

\* The field width of "{:012x}" (line 435).
AddressWidth == 12
HexChars ==
    <<"0", "1", "2", "3", "4", "5", "6", "7", "8", "9",
      "a", "b", "c", "d", "e", "f">>
\* Format012x without the zero padding.
Format012x_NoPad(n) == [i \in 1..Len(n) |-> HexChars[n[i] + 1]]
\* "{:012x}".format(n): n is given by its hex digits, most significant
\* first and without leading zeros; shorter numbers are padded with zeros.
Format012x(n) ==
    [i \in 1..(AddressWidth - Len(n)) |-> "0"] \o
    [i \in 1..Len(n) |-> HexChars[n[i] + 1]]
\* Lines 435-436: the address string of an event.
AddressString(n) == Show(JoinPairs(UpperText(Format012x(n))))

\* bleak.uuids.ble_uuid_to_128bit for a str: a leading "0x" is stripped, a
\* 16-bit UUID (4 hex digits) is put into the Bluetooth Base UUID, and the
\* result is in the lower-case form in which the platform reports services.
BaseUuidHead == <<"0", "0", "0", "0">>
BaseUuidTail ==
    <<"-", "0", "0", "0", "0", "-", "1", "0", "0", "0", "-", "8", "0", "0", "0", "-",
      "0", "0", "8", "0", "5", "f", "9", "b", "3", "4", "f", "b">>
Strip0x(s) ==
    IF Len(s) >= 2 /\ s[1] = "0" /\ s[2] = "x" THEN SubSeq(s, 3, Len(s)) ELSE s
\* A conversion that puts every str into the Base UUID, whatever its length.
ble_uuid_to_128bit_Always(s) ==
    BaseUuidHead \o LowerText(Strip0x(s)) \o BaseUuidTail
ble_uuid_to_128bit(s) ==
    IF Len(Strip0x(s)) = 4
    THEN BaseUuidHead \o LowerText(Strip0x(s)) \o BaseUuidTail
    ELSE LowerText(Strip0x(s))

\* ----------------------------------------------------------- input values
\* A filter argument of find(): None, a str, a compiled pattern (given by the
\* set of strings its match() accepts), or a value of another type.  A str
\* that find() rewrites (mac, an entry of services) is given by its
\* characters and is a str once rewritten.
NoFilter == [kind |-> "none", val |-> <<>>]
Str(s) == [kind |-> "str", val |-> s]
Pattern(S) == [kind |-> "pattern", val |-> S]
Invalid == [kind |-> "invalid", val |-> <<>>]
\* The int 0: a value of another type whose truth value is false.
Zero == [kind |-> "zero", val |-> <<>>]
IsStr(x) == x.kind = "str"
IsPattern(x) == x.kind = "pattern"
\* pattern.match(s)
Match(p, s) == s \in p.val
\* Truth value of an argument ("if mac:"): None and "" are false.
Present(x) == x.kind \in {"pattern", "invalid"} \/ (IsStr(x) /\ Len(x.val) > 0)

\* Platform addresses (hex digits of the 48-bit number): FA:BD:60:D2:11:3A
\* and 00:1B:60:D2:11:3B.
A1Num == <<15, 10, 11, 13, 6, 0, 13, 2, 1, 1, 3, 10>>
A2Num == <<1, 11, 6, 0, 13, 2, 1, 1, 3, 11>>
\* A local name.
N1 == "n1"
\* Service UUIDs as the platform reports them (Guid.ToString()).
U180a == "0000180a-0000-1000-8000-00805f9b34fb"
U180f == "0000180f-0000-1000-8000-00805f9b34fb"
U1812 == "00001812-0000-1000-8000-00805f9b34fb"

\* Lines 430-447 and 366-377: the event built from the platform's arguments.
EventArgs(r) ==
    [address |-> AddressString(r.BluetoothAddress),
     name |-> r.LocalName,
     services |-> r.ServiceUuids]

\* What the platform hands to the Received callback: the advertisement of
\* device A1, which carries no local name and no services, its scan
\* response, which carries the name and one service, and the advertisement
\* of device A2.
AdvA1 == [BluetoothAddress |-> A1Num, LocalName |-> "", ServiceUuids |-> <<>>]
ScanRespA1 ==
    [BluetoothAddress |-> A1Num, LocalName |-> N1, ServiceUuids |-> <<U180a>>]
AdvA2 ==
    [BluetoothAddress |-> A2Num, LocalName |-> N1,
     ServiceUuids |-> <<U180a, U180f, U1812>>]
RawEvents == {AdvA1, ScanRespA1, AdvA2}
\* Line 549: args = AdvertisementReceivedEventArgs(args).
Events == {EventArgs(AdvA1), EventArgs(ScanRespA1), EventArgs(AdvA2)}
A1 == AddressString(A1Num)
A2 == AddressString(A2Num)
Addrs == {A1, A2}

\* mac argument of find(): None, the str "fa-bd:60d2_113a" (line 644), or a
\* value of an invalid type.
MacGiven == <<"f", "a", "-", "b", "d", ":", "6", "0", "d", "2", "_", "1", "1", "3", "a">>
MacArgs == {NoFilter, Str(MacGiven), Invalid}
\* name argument of find(): None or a str.
NameArgs == {NoFilter, Str(N1)}
\* timeout argument of find() (seconds); negative asks for "first device".
Timeouts == {-1, 0, 1}

VARIABLES
    mac,          \* find() argument mac
    name,         \* find() argument name
    services,     \* find() argument services
    timeout,      \* find() argument timeout
    active_scan,  \* find() argument active_scan
    pc,           \* position of the find() generator
    status,       \* watcher.Status
    startCalled,  \* watcher.Start() has been called
    handlers,     \* callbacks registered on the watcher
    ScanningMode, \* watcher.ScanningMode
    timer,        \* the loop.call_later handle: "unset", "armed", "fired"
    stopCalls,    \* number of watcher.Stop() calls made by stop_scan
    devices,      \* dict devices: address -> device
    new_devices,  \* list new_devices
    emitted,      \* devices yielded to the caller, in order
    arrival,      \* devices appended to new_devices, in order (history)
    matched,      \* per address, number of sightings that passed the filters
    delivered,    \* number of Received callbacks delivered so far
    cbpc,         \* per worker thread, position inside the Received callback
    cbarg,        \* per worker thread, the event of the running callback
    probe,        \* one call of find() and one event, as given (inputs)
    verdict,      \* what the filter code made of probe (outputs)
    adv,          \* one platform event and what line 549 makes of it
    disc          \* one call of discover() (discovery.py)

vars == <<mac, name, services, timeout, active_scan, pc, status, startCalled,
          handlers, ScanningMode, timer, stopCalls, devices, new_devices,
          emitted, arrival, matched, delivered, cbpc, cbarg, probe, verdict,
          adv, disc>>

argVars == <<mac, name, services, timeout, active_scan>>
genVars == <<pc, emitted>>
watcherVars == <<status, startCalled, handlers, ScanningMode, timer, stopCalls>>
cbVars == <<devices, arrival, matched, delivered, cbpc, cbarg>>
probeVars == <<probe, verdict, adv, disc>>

NoEvent == [address |-> "", name |-> "", services |-> <<>>]

\* ------------------------------------------------------------ pure helpers
\* BLEDevice(args.bluetooth_address, args.advertisement.local_name, args)
BLEDevice(ev) == [address |-> ev.address, name |-> ev.name]

Range(q) == {q[i] : i \in 1..Len(q)}

\* Lines 555-562: the mac filter.
MacAccepts(m, ev) ==
    Present(m) =>
        /\ IsStr(m) => (m.val = ev.address)
        /\ IsPattern(m) => Match(m, ev.address)
\* NameAccepts that lets an event without a local name pass.
NameAccepts_EmptyPasses(n, ev) ==
    (Present(n) /\ Len(ev.name) > 0) =>
        /\ IsStr(n) => (n.val = ev.name)
        /\ IsPattern(n) => Match(n, ev.name)
\* Lines 564-571: the name filter.
NameAccepts(n, ev) ==
    Present(n) =>
        /\ IsStr(n) => (n.val = ev.name)
        /\ IsPattern(n) => Match(n, ev.name)
\* ServicesAccepts without the test of lines 574-576.
ServicesAccepts_NoEmptyTest(n, s, ev) ==
    Len(s) > 0 =>
        \A i \in 1..Len(s) :
            /\ IsStr(s[i]) => (s[i].val \in Range(ev.services))
            /\ IsPattern(n) => (\E ds \in Range(ev.services) : Match(n, ds))
\* Lines 573-586: the services filter.  Line 582 tests the name argument,
\* not the entry: 'isinstance(name, Pattern) and not any(name.match(ds) ...)'.
ServicesAccepts(n, s, ev) ==
    Len(s) > 0 =>
        /\ Len(ev.services) > 0
        /\ \A i \in 1..Len(s) :
              /\ IsStr(s[i]) => (s[i].val \in Range(ev.services))
              /\ IsPattern(n) => (\E ds \in Range(ev.services) : Match(n, ds))
\* Accepts that ignores events with an empty local name.
Accepts_NamedOnly(m, n, s, ev) ==
    /\ Len(ev.name) > 0
    /\ MacAccepts(m, ev) /\ NameAccepts(n, ev) /\ ServicesAccepts(n, s, ev)
\* Lines 555-591: the filter chain of the Received callback.
Accepts(m, n, s, ev) ==
    MacAccepts(m, ev) /\ NameAccepts(n, ev) /\ ServicesAccepts(n, s, ev)

\* Lines 521-537: the type checks of the arguments.  mac and name are
\* checked only when their truth value is true ("if mac:", "if name and");
\* an entry of services is checked when ble_uuid_to_128bit raises TypeError
\* for it, as it does for a value that is neither a str nor an int.
ValidArgs(m, n, s) ==
    /\ Present(m) => (IsStr(m) \/ IsPattern(m))
    /\ Present(n) => (IsStr(n) \/ IsPattern(n))
    /\ \A i \in 1..Len(s) : s[i].kind # "invalid"
\* Lines 521-525: a str mac is rewritten, a pattern is left alone.
NormalizeMac(m) ==
    IF Present(m) /\ IsStr(m) THEN Str(Show(MacNormalize(m.val))) ELSE m
\* NormalizeServices that leaves the entries as they were given.
NormalizeServices_Skip(s) == s
\* Line 534: the list of the caller after the call, which rewrote its str
\* entries in place.
Rewritten(s) ==
    [i \in 1..Len(s) |->
        IF IsStr(s[i]) THEN Str(ble_uuid_to_128bit(s[i].val)) ELSE s[i]]
\* Lines 530-537: every str entry is replaced by its 128-bit form.
NormalizeServices(s) ==
    [i \in 1..Len(s) |->
        IF IsStr(s[i]) THEN Str(Show(ble_uuid_to_128bit(s[i].val))) ELSE s[i]]

\* -------------------------------------------------------------- GAP codec
\* An Optional value: None, or the value.
None == <<>>
Some(v) == <<v>>

\* The codes of enum GAPDataType (lines 46-224).
GAPDataTypes == (1..10) \cup (13..18) \cup (20..43) \cup {61, 255}
Complete_Local_Name == 9
Tx_Power_Level == 10
Appearance == 25

\* int.from_bytes(data, 'big'): unsigned, most significant byte first; the
\* empty payload gives 0.
RECURSIVE from_bytes_big(_)
from_bytes_big(data) ==
    IF Len(data) = 0 THEN 0
    ELSE from_bytes_big(SubSeq(data, 1, Len(data) - 1)) * 256 + data[Len(data)]

\* Line 297: GAPDataType(ds.DataType) raises ValueError for a code that is
\* not a member of the enum.
DataSectionRaises(ds) == ds.DataType \notin GAPDataTypes
\* Lines 296-301: DataSection(ds).
DataSection(ds) == [data_type |-> ds.DataType, data |-> ds.Data]

\* Lines 306-321: the members of Flags.
FlagBits ==
    [LIMITED_DISCOVERABLE_MODE |-> 1,
     GENERAL_DISCOVERABLE_MODE |-> 2,
     CLASSIC_NOT_SUPPORTED |-> 4,
     DUAL_MODE_CONTROLLER_CAPABLE |-> 8,
     DUAL_MODE_HOST_CAPABLE |-> 16]
\* x & y == y for a single bit y.
HasBit(x, y) == (x \div y) % 2 = 1
\* Flags(v) of an enum.IntFlag: the value is kept as it is, and a member is
\* contained in the result when its bit is set in the value.
Flags(v) ==
    [value |-> v, members |-> {f \in DOMAIN FlagBits : HasBit(v, FlagBits[f])}]

\* Lines 373-377: the loop over data_sections, in section order; every
\* Appearance and every Tx_Power_Level section assigns its field.
RECURSIVE ParseSections(_, _)
ParseSections(ds, a) ==
    IF Len(ds) = 0 THEN a
    ELSE ParseSections(Tail(ds),
            IF Head(ds).data_type = Appearance
            THEN [a EXCEPT !.appearance = Some(from_bytes_big(Head(ds).data))]
            ELSE IF Head(ds).data_type = Tx_Power_Level
            THEN [a EXCEPT !.tx_power_level = Some(from_bytes_big(Head(ds).data))]
            ELSE a)

\* Line 367 raises when one of the sections does.
AdvertisementRaises(args) ==
    \E i \in 1..Len(args.DataSections) : DataSectionRaises(args.DataSections[i])
\* Lines 366-377: Advertisement(args), when line 367 does not raise.  Line
\* 368: 'self.Flags(args.Flags) if args.Flags else None' gives None for null
\* and for 0.  manufacturer_data is left out.
Advertisement(args) ==
    LET sections ==
            [i \in 1..Len(args.DataSections) |-> DataSection(args.DataSections[i])]
    IN  ParseSections(sections,
            [data_sections |-> sections,
             flags |-> IF args.Flags # None /\ args.Flags[1] # 0
                       THEN Some(Flags(args.Flags[1])) ELSE None,
             local_name |-> args.LocalName,
             services |-> args.ServiceUuids,
             appearance |-> None,
             tx_power_level |-> None])

\* Lines 443-447: the datetime built from the DateTimeOffset t.  The fields
\* of the local time are copied (of the date and the seconds, which are
\* copied in the same way, only hour and minute are kept here); the
\* timezone is timedelta(hours=t.Offset.Hours), given in minutes.
Timestamp(t) ==
    [hour |-> t.Hour, minute |-> t.Minute, utcoffset |-> 60 * t.Offset.Hours]

\* Lines 430-447: AdvertisementReceivedEventArgs(args); the signal strength
\* and the advertisement type are left out.
AdvertisementReceivedEventArgs(args) ==
    [advertisement |-> Advertisement(args),
     bluetooth_address |-> AddressString(args.BluetoothAddress),
     timestamp |-> Timestamp(args.Timestamp)]

\* list.pop(): removes and returns the LAST item.
PopItem(q) == q[Len(q)]
PopRest(q) == SubSeq(q, 1, Len(q) - 1)

\* watcher.Stop() of the platform watcher: a started watcher goes to
\* Stopping, any other status is left alone.
WatcherStop(s) == IF s = "Started" THEN "Stopping" ELSE s

Count(q, a) == Cardinality({i \in 1..Len(q) : q[i].address = a})

\* ------------------------------------------------------------------- Init
\* The value of a variable in the specifications that do not use it.
Unused == <<>>
NoVerdict ==
    [stage |-> "given", mac |-> NoFilter, services |-> <<>>, accepted |-> FALSE,
     second |-> None]
NoAdvertisement ==
    [data_sections |-> <<>>, flags |-> None, local_name |-> "", services |-> <<>>,
     appearance |-> None, tx_power_level |-> None]
\* The event of adv before line 549 has built it.
NoEventArgs ==
    [advertisement |-> NoAdvertisement, bluetooth_address |-> "",
     timestamp |-> [hour |-> 0, minute |-> 0, utcoffset |-> 0]]
\* discovery.py, discover(): the call before its first step.  devices is the
\* dict of line 495, given by its items in insertion order: the key Id and
\* the DeviceInformation object stored under it, named by the number of the
\* notification that brought it.  it is the iterator of the loop of line
\* 565; cb is, per worker thread, the running callback; raised is the
\* exception that left a callback; last is, per Id, the latest of the Added
\* and Removed notifications of the watcher.
DeviceIds == {"d1", "d2"}
DiscHandlers == <<"Added", "Updated", "Removed", "EnumerationCompleted", "Stopped">>
DiscoverCalled ==
    [pc |-> "l544",
     status |-> "Created",
     handlers |-> {},
     devices |-> <<>>,
     found |-> <<>>,
     it |-> [pos |-> 0, size |-> 0],
     failed |-> FALSE,
     error |-> "",
     delivered |-> 0,
     raised |-> "",
     last |-> [i \in DeviceIds |-> "none"],
     cb |-> [t \in Threads |-> [pc |-> "idle", id |-> "", info |-> 0]]]

\* The session before its first step; the arguments are those of the call.
InitSession ==
    /\ pc = "l520"
    /\ status = "Created"
    /\ startCalled = FALSE
    /\ handlers = {}
    /\ ScanningMode = "unset"
    /\ timer = "unset"
    /\ stopCalls = 0
    /\ devices = <<>>
    /\ new_devices = <<>>
    /\ emitted = <<>>
    /\ arrival = <<>>
    /\ matched = [a \in Addrs |-> 0]
    /\ delivered = 0
    /\ cbpc = [t \in Threads |-> "idle"]
    /\ cbarg = [t \in Threads |-> NoEvent]

Init ==
    /\ mac \in MacArgs
    /\ name \in NameArgs
    /\ services = <<>>
    /\ timeout \in Timeouts
    /\ active_scan = TRUE
    /\ InitSession
    /\ probe = Unused
    /\ verdict = Unused
    /\ adv = Unused
    /\ disc = Unused

\* ------------------------------------------------- find(): the generator
\* Lines 520-539: check and normalize the filter arguments; an argument of
\* an invalid type raises TypeError.
CheckFilters ==
    /\ pc = "l520"
    /\ IF ValidArgs(mac, name, services)
       THEN /\ mac' = NormalizeMac(mac)
            /\ services' = NormalizeServices(services)
            /\ pc' = "l606"
       ELSE /\ pc' = "raised"
            /\ UNCHANGED <<mac, services>>
    /\ UNCHANGED <<name, timeout, active_scan, probeVars, emitted, watcherVars,
                   new_devices, cbVars>>

\* CreateWatcher that goes on to line 621 without lines 613-617.
CreateWatcher_Bare ==
    /\ pc = "l606"
    /\ pc' = "l621"
    /\ UNCHANGED <<argVars, probeVars, emitted, watcherVars, new_devices, cbVars>>

\* Lines 606-617: create the watcher, register both callbacks and set the
\* scanning mode.
CreateWatcher ==
    /\ pc = "l606"
    /\ handlers' = {"Received", "Stopped"}
    /\ ScanningMode' = IF active_scan THEN "Active" ELSE "Passive"
    /\ pc' = "l621"
    /\ UNCHANGED <<argVars, probeVars, emitted, status, startCalled, timer, stopCalls,
                   new_devices, cbVars>>

\* Line 621: watcher.Start().
StartWatcher ==
    /\ pc = "l621"
    /\ startCalled' = TRUE
    /\ pc' = "l622"
    /\ UNCHANGED <<argVars, probeVars, emitted, status, handlers, ScanningMode, timer, stopCalls,
                   new_devices, cbVars>>

\* WaitStart without the wait: goes on whatever the status is.
WaitStart_NoWait ==
    /\ pc = "l622"
    /\ pc' = "l625"
    /\ UNCHANGED <<argVars, probeVars, emitted, watcherVars, new_devices, cbVars>>

\* Line 622: while watcher.Status == Created.
WaitStart ==
    /\ pc = "l622"
    /\ pc' = IF status = "Created" THEN "l623" ELSE "l625"
    /\ UNCHANGED <<argVars, probeVars, emitted, watcherVars, new_devices, cbVars>>

\* Line 623: await asyncio.sleep(0.01) returns.
WaitStartSleep ==
    /\ pc = "l623"
    /\ pc' = "l622"
    /\ UNCHANGED <<argVars, probeVars, emitted, watcherVars, new_devices, cbVars>>

\* ScheduleStop that forgets to arm the timer.
ScheduleStop_NotArmed ==
    /\ pc = "l625"
    /\ pc' = "l627"
    /\ UNCHANGED <<argVars, probeVars, emitted, watcherVars, new_devices, cbVars>>

\* Line 625: loop.call_later(timeout, stop_scan).
ScheduleStop ==
    /\ pc = "l625"
    /\ timer' = "armed"
    /\ pc' = "l627"
    /\ UNCHANGED <<argVars, probeVars, emitted, status, startCalled, handlers, ScanningMode, stopCalls,
                   new_devices, cbVars>>

\* Line 627: while watcher.Status in (Started, Stopping); leaving the loop
\* ends the generator.
LoopTest ==
    /\ pc = "l627"
    /\ pc' = IF status \in {"Started", "Stopping"} THEN "l628" ELSE "done"
    /\ UNCHANGED <<argVars, probeVars, emitted, watcherVars, new_devices, cbVars>>

\* Poll that hands devices out only once the watcher has left Started.
Poll_Deferred ==
    /\ pc = "l628"
    /\ IF new_devices # <<>> /\ status # "Started"
       THEN /\ emitted' = Append(emitted, PopItem(new_devices))
            /\ new_devices' = PopRest(new_devices)
            /\ pc' = "l629"
       ELSE /\ pc' = "l630"
            /\ UNCHANGED <<emitted, new_devices>>
    /\ UNCHANGED <<argVars, probeVars, watcherVars, cbVars>>

\* Lines 628-629: if new_devices: yield new_devices.pop().  The generator is
\* then suspended at the yield until the caller asks for the next item.
Poll ==
    /\ pc = "l628"
    /\ IF new_devices # <<>>
       THEN /\ emitted' = Append(emitted, PopItem(new_devices))
            /\ new_devices' = PopRest(new_devices)
            /\ pc' = "l629"
       ELSE /\ pc' = "l630"
            /\ UNCHANGED <<emitted, new_devices>>
    /\ UNCHANGED <<argVars, probeVars, watcherVars, cbVars>>

\* The caller asks for the next item: the generator resumes after the yield.
CallerNext ==
    /\ pc = "l629"
    /\ pc' = "l630"
    /\ UNCHANGED <<argVars, probeVars, emitted, watcherVars, new_devices, cbVars>>

\* A timer whose delay is not positive is due as soon as it is armed: the
\* event loop runs it before it wakes a sleep of 0.01 s.
TimerDue == timer = "armed" /\ timeout <= 0

\* Line 630: await asyncio.sleep(0.01) returns.
PollSleep ==
    /\ pc = "l630"
    /\ ~TimerDue
    /\ pc' = "l627"
    /\ UNCHANGED <<argVars, probeVars, emitted, watcherVars, new_devices, cbVars>>

\* Points where the generator is suspended and the event loop (or the
\* caller) has control.
Suspended == {"l623", "l629", "l630"}

\* The caller abandons the sequence (aclose(), or the consuming task is
\* cancelled): the generator is closed where it is suspended.  find() has no
\* try/finally, so nothing else happens.
CallerCancel ==
    /\ pc \in Suspended
    /\ pc' = "cancelled"
    /\ UNCHANGED <<argVars, probeVars, emitted, watcherVars, new_devices, cbVars>>

\* StopScan that renews the timer: it calls watcher.Stop() and stays armed.
StopScan_Renews ==
    /\ timer = "armed"
    /\ pc \in Suspended \cup {"done", "cancelled"}
    /\ timer' = "armed"
    /\ stopCalls' = stopCalls + 1
    /\ status' = WatcherStop(status)
    /\ UNCHANGED <<argVars, probeVars, genVars, startCalled, handlers, ScanningMode, new_devices, cbVars>>

\* Lines 608-610: the timer runs stop_scan(), which calls watcher.Stop().
\* The event loop runs it only while no coroutine step is running.
StopScan ==
    /\ timer = "armed"
    /\ pc \in Suspended \cup {"done", "cancelled"}
    /\ timer' = "fired"
    /\ stopCalls' = stopCalls + 1
    /\ status' = WatcherStop(status)
    /\ UNCHANGED <<argVars, probeVars, genVars, startCalled, handlers, ScanningMode, new_devices, cbVars>>

\* ------------------------------------------------- the platform watcher
\* The watcher belongs to the platform; its transitions are those documented
\* for AdvertisementWatcherStatus (lines 462-478).
\* Created -> Started, some time after Start().
PlatformStarted ==
    /\ startCalled
    /\ status = "Created"
    /\ status' = "Started"
    /\ UNCHANGED <<argVars, probeVars, genVars, startCalled, handlers, ScanningMode, timer, stopCalls,
                   new_devices, cbVars>>

\* Stopping -> Stopped.
PlatformStopped ==
    /\ status = "Stopping"
    /\ status' = "Stopped"
    /\ UNCHANGED <<argVars, probeVars, genVars, startCalled, handlers, ScanningMode, timer, stopCalls,
                   new_devices, cbVars>>

\* An error while scanning or while stopping: -> Aborted.
PlatformAborted ==
    /\ status \in {"Started", "Stopping"}
    /\ status' = "Aborted"
    /\ UNCHANGED <<argVars, probeVars, genVars, startCalled, handlers, ScanningMode, timer, stopCalls,
                   new_devices, cbVars>>

\* --------------------------------- advertisement_watcher__received (l547)
\* The platform invokes the Received handler on worker thread t; ev is the
\* event that line 549 builds from the arguments.  Lines 552-591: the handler
\* builds the device and runs the filters, which read only the event and the
\* arguments of find(); a rejected event returns, an accepted one goes on to
\* line 593.
Received(t, ev) ==
    /\ status = "Started"
    /\ "Received" \in handlers
    /\ cbpc[t] = "idle"
    /\ delivered < MaxEvents
    /\ delivered' = delivered + 1
    /\ IF Accepts(mac, name, services, ev)
       THEN /\ cbpc' = [cbpc EXCEPT ![t] = "l593"]
            /\ cbarg' = [cbarg EXCEPT ![t] = ev]
            /\ matched' = [matched EXCEPT ![ev.address] = @ + 1]
       ELSE UNCHANGED <<cbpc, cbarg, matched>>
    /\ UNCHANGED <<argVars, probeVars, genVars, watcherVars, new_devices,
                   devices, arrival>>

\* TestSeen without the membership test: every accepted event is stored.
TestSeen_NoTest(t) ==
    /\ cbpc[t] = "l593"
    /\ cbpc' = [cbpc EXCEPT ![t] = "l594"]
    /\ UNCHANGED <<argVars, probeVars, genVars, watcherVars, new_devices, devices,
                   arrival, matched, delivered, cbarg>>

\* Line 593: if device.address not in devices.
TestSeen(t) ==
    /\ cbpc[t] = "l593"
    /\ IF cbarg[t].address \notin DOMAIN devices
       THEN /\ cbpc' = [cbpc EXCEPT ![t] = "l594"]
            /\ UNCHANGED cbarg
       ELSE /\ cbpc' = [cbpc EXCEPT ![t] = "idle"]
            /\ cbarg' = [cbarg EXCEPT ![t] = NoEvent]
    /\ UNCHANGED <<argVars, probeVars, genVars, watcherVars, new_devices, devices,
                   arrival, matched, delivered>>

\* Line 594: devices[device.address] = device.
StoreDevice(t) ==
    /\ cbpc[t] = "l594"
    /\ devices' = [a \in DOMAIN devices \cup {cbarg[t].address} |->
                     IF a = cbarg[t].address THEN BLEDevice(cbarg[t])
                     ELSE devices[a]]
    /\ cbpc' = [cbpc EXCEPT ![t] = "l595"]
    /\ UNCHANGED <<argVars, probeVars, genVars, watcherVars, new_devices, arrival,
                   matched, delivered, cbarg>>

\* Line 595: new_devices.append(device).
AppendDevice(t) ==
    /\ cbpc[t] = "l595"
    /\ new_devices' = Append(new_devices, BLEDevice(cbarg[t]))
    /\ arrival' = Append(arrival, BLEDevice(cbarg[t]))
    /\ cbpc' = [cbpc EXCEPT ![t] = "idle"]
    /\ cbarg' = [cbarg EXCEPT ![t] = NoEvent]
    /\ UNCHANGED <<argVars, probeVars, genVars, watcherVars, devices, matched, delivered>>

\* ------------------------------------------------------------------- Next
Generator ==
    \/ CheckFilters
    \/ CreateWatcher
    \/ StartWatcher
    \/ WaitStart
    \/ WaitStartSleep
    \/ ScheduleStop
    \/ LoopTest
    \/ Poll
    \/ PollSleep

Platform ==
    \/ PlatformStarted
    \/ PlatformStopped
    \/ PlatformAborted

Callback(t) ==
    \/ TestSeen(t)
    \/ StoreDevice(t)
    \/ AppendDevice(t)

\* Every step but the delivery of a callback and the caller's cancellation.
Step ==
    \/ Generator
    \/ CallerNext
    \/ StopScan
    \/ Platform
    \/ \E t \in Threads : Callback(t)

Next ==
    \/ Step
    \/ CallerCancel
    \/ \E t \in Threads, ev \in Events : Received(t, ev)

Spec == Init /\ [][Next]_vars

\* The platform delivers Received callbacks one after another: a callback is
\* invoked only when no other one is running.
ReceivedSerial(t, ev) ==
    /\ \A u \in Threads : cbpc[u] = "idle"
    /\ Received(t, ev)

NextSerial ==
    \/ Step
    \/ CallerCancel
    \/ \E t \in Threads, ev \in Events : ReceivedSerial(t, ev)

SpecSerial == Init /\ [][NextSerial]_vars

\* Sessions over the kinds of filter arguments find() accepts: None, a str
\* and a compiled pattern for mac and name; for services None, str entries
\* in short and in 128-bit form, a pattern entry, and both.
Short180a == <<"0", "x", "1", "8", "0", "A">>
Long180a ==
    BaseUuidHead \o <<"1", "8", "0", "a">> \o BaseUuidTail
Long180f ==
    BaseUuidHead \o <<"1", "8", "0", "f">> \o BaseUuidTail
FilterMacs == {NoFilter, Str(MacGiven), Pattern({A1})}
FilterNames == {NoFilter, Str(N1), Pattern({N1})}
FilterServices ==
    { <<>>,
      <<Str(Short180a), Str(Long180f)>>,
      <<Pattern({U180f})>>,
      <<Str(Short180a), Pattern({U180f})>> }

InitFilters ==
    /\ mac \in FilterMacs
    /\ name \in FilterNames
    /\ services \in FilterServices
    /\ timeout = 1
    /\ active_scan = TRUE
    /\ InitSession
    /\ probe = Unused
    /\ verdict = Unused
    /\ adv = Unused
    /\ disc = Unused

SpecFilters == InitFilters /\ [][NextSerial]_vars

\* Sessions called with arguments of other types than None, str and
\* pattern: a value whose truth value is true and the int 0 for mac and
\* name, and a value that is no UUID among the entries of services.
OtherTypeArgs == {NoFilter, Invalid, Zero}
OtherTypeServices == {<<>>, <<Invalid>>, <<Str(Short180a), Invalid>>}

InitOtherTypes ==
    /\ mac \in OtherTypeArgs
    /\ name \in OtherTypeArgs
    /\ services \in OtherTypeServices
    /\ timeout = 1
    /\ active_scan = TRUE
    /\ InitSession
    /\ probe = Unused
    /\ verdict = Unused
    /\ adv = Unused
    /\ disc = Unused

SpecOtherTypes == InitOtherTypes /\ [][NextSerial]_vars

\* Sessions without filters, with active and with passive scanning.
InitScan ==
    /\ mac = NoFilter
    /\ name = NoFilter
    /\ services = <<>>
    /\ timeout = 1
    /\ active_scan \in BOOLEAN
    /\ InitSession
    /\ probe = Unused
    /\ verdict = Unused
    /\ adv = Unused
    /\ disc = Unused

SpecScan == InitScan /\ [][NextSerial]_vars

\* ------------------------------------------- one call of find(), one event
\* The filter code applied to one call and one event: the arguments as the
\* caller spells them, then lines 520-539, then lines 549-591 for the event.
A3Num == <<15, 10, 11, 13, 6, 0, 13, 2, 1, 1, 3, 11>>
ProbeAddrs == {A1Num, A2Num, A3Num}
\* The twelve hex digits of a 48-bit address.
Pad12(n) == [i \in 1..(AddressWidth - Len(n)) |-> 0] \o n
\* Spellings of an address: letter case, and what stands between the bytes.
CaseModes == {"lower", "upper", "mixed"}
HexCharIn(d, mode, i) ==
    IF mode = "lower" \/ (mode = "mixed" /\ i % 2 = 1)
    THEN HexChars[d + 1] ELSE Upper(HexChars[d + 1])
DelimiterStyles ==
    { << <<>>, <<>>, <<>>, <<>>, <<>> >>,
      << <<":">>, <<":">>, <<":">>, <<":">>, <<":">> >>,
      << <<"-">>, <<":">>, <<>>, <<"_">>, <<>> >>,
      << <<" ">>, <<"g">>, <<".", "x">>, <<"G">>, <<"-", "-">> >> }
Spell(n, mode, dl) ==
    LET p == Pad12(n)
        byte(k) == <<HexCharIn(p[2 * k - 1], mode, 2 * k - 1),
                     HexCharIn(p[2 * k], mode, 2 * k)>>
    IN  byte(1) \o dl[1] \o byte(2) \o dl[2] \o byte(3) \o dl[3] \o
        byte(4) \o dl[4] \o byte(5) \o dl[5] \o byte(6)
\* Strs that do not spell a 48-bit address: three bytes, thirteen hex digits,
\* and no hex digit at all.
MacShort == <<"f", "a", ":", "b", "d", ":", "6", "0">>
MacLong ==
    <<"f", "a", "b", "d", "6", "0", "d", "2", "1", "1", "3", "a", "0">>
MacNoDigits == <<"-", "g", ":">>
MalformedMacs == {MacShort, MacLong, MacNoDigits}
ProbeMacs ==
    {NoFilter, Pattern({A1}), Invalid} \cup
    {Str(s) : s \in MalformedMacs} \cup
    {Str(Spell(n, c, dl)) : n \in ProbeAddrs, c \in CaseModes,
                            dl \in DelimiterStyles}
\* Spellings of the service UUID 0x180A (lines 647-651).
Spellings180a ==
    { Short180a,
      <<"1", "8", "0", "A">>,
      <<"0", "x">> \o Long180a,
      Long180a }
ProbeServices ==
    {<<Str(sp)>> : sp \in Spellings180a} \cup
    { <<>>,
      <<Str(Short180a), Str(Long180f)>>,
      <<Pattern({U180f})>>,
      <<Str(Short180a), Pattern({U180f})>> }
ProbeEvents ==
    [BluetoothAddress : ProbeAddrs,
     LocalName : {"", N1},
     ServiceUuids : {<<>>, <<U180a>>, <<U180f>>, <<U180a, U180f, U1812>>}]

InitProbe ==
    /\ mac = NoFilter
    /\ name = NoFilter
    /\ services = <<>>
    /\ timeout = 1
    /\ active_scan = TRUE
    /\ InitSession
    /\ probe \in [mac : ProbeMacs, name : FilterNames,
                   services : ProbeServices, event : ProbeEvents]
    /\ verdict = NoVerdict
    /\ adv = Unused
    /\ disc = Unused

\* Lines 520-539 for the arguments of the probe.
ProbeCheckFilters ==
    /\ verdict.stage = "given"
    /\ verdict' =
          IF ValidArgs(probe.mac, probe.name, probe.services)
          THEN [verdict EXCEPT
                  !.stage = "checked",
                  !.mac = NormalizeMac(probe.mac),
                  !.services = NormalizeServices(probe.services)]
          ELSE [verdict EXCEPT !.stage = "raised"]
    /\ UNCHANGED <<argVars, genVars, watcherVars, new_devices, cbVars, probe,
                   adv, disc>>

\* Lines 549-591 for the event of the probe.
ProbeReceived ==
    /\ verdict.stage = "checked"
    /\ verdict' =
          [verdict EXCEPT
             !.stage = "received",
             !.accepted = Accepts(verdict.mac, probe.name, verdict.services,
                                  EventArgs(probe.event))]
    /\ UNCHANGED <<argVars, genVars, watcherVars, new_devices, cbVars, probe,
                   adv, disc>>

\* A second call of find() with the same arguments, the services list being
\* the one the first call rewrote: lines 520-539, then lines 549-591 for the
\* same event.
ProbeSecondCall ==
    /\ verdict.stage = "received"
    /\ verdict' =
          LET again == Rewritten(probe.services)
          IN  [verdict EXCEPT
                 !.stage = "repeated",
                 !.second =
                    IF ValidArgs(probe.mac, probe.name, again)
                    THEN Some([raised |-> FALSE,
                               services |-> NormalizeServices(again),
                               accepted |->
                                  Accepts(NormalizeMac(probe.mac), probe.name,
                                          NormalizeServices(again),
                                          EventArgs(probe.event))])
                    ELSE Some([raised |-> TRUE, services |-> <<>>,
                               accepted |-> FALSE])]
    /\ UNCHANGED <<argVars, genVars, watcherVars, new_devices, cbVars, probe,
                   adv, disc>>

NextProbe ==
    \/ ProbeCheckFilters
    \/ ProbeReceived
    \/ ProbeSecondCall

SpecProbe == InitProbe /\ [][NextProbe]_vars

\* ------------------------------------------------- one event, as decoded
\* Number of data sections in an advertisement.
MaxSections == 2
Byte == 0..255
\* Data sections as the platform reports them: Tx_Power_Level and Appearance
\* sections with payloads of 0, 1 and 2 bytes, a local name, and a section
\* whose code (0x2C) is not in GAPDataType.
Section(t, d) == [DataType |-> t, Data |-> d]
TxPayloads == {<<>>, <<12>>, <<127>>, <<128>>, <<244>>}
AppearancePayloads == {<<>>, <<3>>, <<3, 193>>, <<0, 64>>, <<255, 255>>}
UnknownSection == Section(44, <<1>>)
NameSection == Section(Complete_Local_Name, <<110, 49>>)
DecodeSections ==
    {Section(Tx_Power_Level, d) : d \in TxPayloads} \cup
    {Section(Appearance, d) : d \in AppearancePayloads} \cup
    {UnknownSection, NameSection}
\* 48-bit addresses: 0, 1, one with a leading zero byte, two that differ in
\* one digit, one with a zero byte inside, and the largest one.
A4Num == <<15, 10, 0, 0, 6, 0, 13, 2, 1, 1, 3, 10>>
AMaxNum == <<15, 15, 15, 15, 15, 15, 15, 15, 15, 15, 15, 15>>
DecodeAddrs == {<<>>, <<1>>, A1Num, A2Num, A3Num, A4Num, AMaxNum}
\* A System.DateTimeOffset: the local time and the offset from UTC, a
\* TimeSpan whose Hours and Minutes components have the sign of the offset.
DateTimeOffset(h, m, oh, om) ==
    [Hour |-> h, Minute |-> m, Offset |-> [Hours |-> oh, Minutes |-> om]]
Noon == DateTimeOffset(12, 0, 0, 0)
\* Offsets of whole hours (UTC, UTC+2, UTC-5, UTC+14, UTC-12) and offsets
\* with minutes (+05:30, -03:30, +05:45, +00:30).
Offsets ==
    { <<0, 0>>, <<2, 0>>, <<-5, 0>>, <<14, 0>>, <<-12, 0>>,
      <<5, 30>>, <<-3, -30>>, <<5, 45>>, <<0, 30>> }
LocalTimes == { <<0, 0>>, <<0, 15>>, <<12, 0>>, <<23, 59>> }
Timestamps ==
    {DateTimeOffset(lt[1], lt[2], o[1], o[2]) : lt \in LocalTimes, o \in Offsets}
\* The events: every sequence of sections without and with flags, every
\* flags byte, every Tx_Power_Level byte, every address, and every
\* timestamp.
DecodeArgs ==
    [BluetoothAddress : {A1Num},
     DataSections : UNION {[1..n -> DecodeSections] : n \in 0..MaxSections},
     Flags : {None, Some(6)},
     LocalName : {N1},
     ServiceUuids : {<<U180a>>},
     Timestamp : {Noon}]
    \cup
    [BluetoothAddress : {A1Num},
     DataSections : {<<>>},
     Flags : {Some(v) : v \in Byte},
     LocalName : {""},
     ServiceUuids : {<<>>},
     Timestamp : {Noon}]
    \cup
    [BluetoothAddress : {A1Num},
     DataSections : {<<Section(Tx_Power_Level, <<b>>)>> : b \in Byte},
     Flags : {None},
     LocalName : {""},
     ServiceUuids : {<<>>},
     Timestamp : {Noon}]
    \cup
    [BluetoothAddress : DecodeAddrs,
     DataSections : {<<>>},
     Flags : {None},
     LocalName : {""},
     ServiceUuids : {<<>>},
     Timestamp : {Noon}]
    \cup
    [BluetoothAddress : {A1Num},
     DataSections : {<<>>},
     Flags : {None},
     LocalName : {""},
     ServiceUuids : {<<>>},
     Timestamp : Timestamps]

InitDecode ==
    /\ mac = NoFilter
    /\ name = NoFilter
    /\ services = <<>>
    /\ timeout = 1
    /\ active_scan = TRUE
    /\ InitSession
    /\ probe = Unused
    /\ verdict = Unused
    /\ adv \in [args : DecodeArgs, stage : {"given"}, event : {NoEventArgs},
                 device : {None}]
    /\ disc = Unused

\* Line 549: args = AdvertisementReceivedEventArgs(args); a ValueError of
\* line 297 leaves the callback.
DecodeReceived ==
    /\ adv.stage = "given"
    /\ adv' = IF AdvertisementRaises(adv.args)
              THEN [adv EXCEPT !.stage = "raised"]
              ELSE [adv EXCEPT !.stage = "built",
                               !.event = AdvertisementReceivedEventArgs(adv.args)]
    /\ UNCHANGED <<argVars, genVars, watcherVars, new_devices, cbVars, probe,
                   verdict, disc>>

\* Lines 552-595 of a session without filters that has not seen the address:
\* the device is built from the event and appended.
DecodeAppend ==
    /\ adv.stage = "built"
    /\ adv' = [adv EXCEPT
                 !.stage = "appended",
                 !.device = Some(BLEDevice(
                     [address |-> adv.event.bluetooth_address,
                      name |-> adv.event.advertisement.local_name]))]
    /\ UNCHANGED <<argVars, genVars, watcherVars, new_devices, cbVars, probe,
                   verdict, disc>>

NextDecode ==
    \/ DecodeReceived
    \/ DecodeAppend

SpecDecode == InitDecode /\ [][NextDecode]_vars

\* ------------------------------------------------ discover() (discovery.py)
sessionVars ==
    <<argVars, genVars, watcherVars, new_devices, cbVars, probe, verdict, adv>>

\* Lines 544-548: the five callbacks are registered.
DiscRegister ==
    /\ disc.pc = "l544"
    /\ disc' = [disc EXCEPT !.pc = "l551", !.handlers = Range(DiscHandlers)]
    /\ UNCHANGED sessionVars

\* Line 551: watcher.Start().
DiscStart ==
    /\ disc.pc = "l551"
    /\ disc' = [disc EXCEPT !.pc = "l552", !.status = "Started"]
    /\ UNCHANGED sessionVars

\* Line 552: await asyncio.sleep(timeout) returns.
DiscSleep ==
    /\ disc.pc = "l552"
    /\ disc' = [disc EXCEPT !.pc = "l553"]
    /\ UNCHANGED sessionVars

\* Line 553: watcher.Stop().
DiscStop ==
    /\ disc.pc = "l553"
    /\ disc' = [disc EXCEPT !.pc = "l555", !.status = WatcherStop(disc.status)]
    /\ UNCHANGED sessionVars

\* The handlers that are left when the first k removals were done.
HandlersAfter(k) == {DiscHandlers[i] : i \in (k + 1)..Len(DiscHandlers)}

\* Deregister without the try/except: the exception of a removal leaves
\* discover().
DiscDeregister_NoTry(k) ==
    /\ disc.pc = "l555"
    /\ disc' = IF k < Len(DiscHandlers)
               THEN [disc EXCEPT !.pc = "raised", !.handlers = HandlersAfter(k),
                                 !.failed = TRUE, !.error = "deregister"]
               ELSE [disc EXCEPT !.pc = "l564", !.handlers = HandlersAfter(k)]
    /\ UNCHANGED sessionVars

\* Lines 555-562: the five removals in a try; k of them are done, and for
\* k < 5 the next one raises, which 'except Exception' catches and logs.
DiscDeregister(k) ==
    /\ disc.pc = "l555"
    /\ disc' = [disc EXCEPT !.pc = "l564", !.handlers = HandlersAfter(k),
                            !.failed = (k < Len(DiscHandlers))]
    /\ UNCHANGED sessionVars

\* Lines 564-565: found = [] and the iterator of devices.values().
DiscIter ==
    /\ disc.pc = "l564"
    /\ disc' = [disc EXCEPT !.pc = "l565", !.found = <<>>,
                            !.it = [pos |-> 1, size |-> Len(disc.devices)]]
    /\ UNCHANGED sessionVars

\* Lines 565-569: one step of the loop.  The iterator of a dict raises
\* RuntimeError when the size of the dict is not the one it started with;
\* at the end of the entries the loop ends and line 571 returns found.
DiscLoop ==
    /\ disc.pc = "l565"
    /\ disc' =
          IF Len(disc.devices) # disc.it.size
          THEN [disc EXCEPT !.pc = "raised", !.error = "RuntimeError"]
          ELSE IF disc.it.pos > Len(disc.devices)
          THEN [disc EXCEPT !.pc = "returned"]
          ELSE [disc EXCEPT !.found = Append(@, disc.devices[disc.it.pos]),
                            !.it.pos = @ + 1]
    /\ UNCHANGED sessionVars

\* The platform completes the stop: Stopping -> Stopped.
DiscStopped ==
    /\ disc.status = "Stopping"
    /\ disc' = [disc EXCEPT !.status = "Stopped"]
    /\ UNCHANGED sessionVars

\* The platform invokes the handler h on worker thread t for the device id:
\* the watcher is started or stopping and the handler is registered.  The
\* sender is the watcher (lines 506, 513, 521).
DiscDeliver(t, h, id, at) ==
    /\ disc.status \in {"Started", "Stopping"}
    /\ h \in disc.handlers
    /\ disc.cb[t].pc = "idle"
    /\ disc.delivered < MaxEvents
    /\ disc' = [disc EXCEPT
                  !.delivered = @ + 1,
                  !.last[id] = IF h \in {"Added", "Removed"} THEN h ELSE @,
                  !.cb[t] = [pc |-> at, id |-> id, info |-> disc.delivered + 1]]
    /\ UNCHANGED sessionVars

\* Lines 506, 513, 521: a handler invoked with a sender that is not the
\* watcher of this call returns at once.
DiscOtherSender(t, h, id) ==
    /\ h \in disc.handlers
    /\ disc.cb[t].pc = "idle"
    /\ disc.delivered < MaxEvents
    /\ disc' = [disc EXCEPT !.delivered = @ + 1]
    /\ UNCHANGED sessionVars

CbIdle == [pc |-> "idle", id |-> "", info |-> 0]
Keys(q) == {q[i].id : i \in 1..Len(q)}
HasId(id) == id \in Keys(disc.devices)
Without(q, id) == SelectSeq(q, LAMBDA x : x.id # id)
\* devices[id] = info: a new key goes to the end, the value of a key that
\* is there is replaced in place.
SetItem(q, id, info) ==
    IF id \in Keys(q)
    THEN [i \in 1..Len(q) |-> IF q[i].id = id THEN [id |-> id, info |-> info]
                                              ELSE q[i]]
    ELSE Append(q, [id |-> id, info |-> info])

\* Line 505: DeviceWatcher_Added is invoked.
DiscAdded(t, id) == DiscDeliver(t, "Added", id, "l509")
\* Line 509: if dinfo.Id not in devices.
AddedTest(t) ==
    /\ disc.cb[t].pc = "l509"
    /\ disc' = [disc EXCEPT
                  !.cb[t] = IF HasId(@.id) THEN CbIdle ELSE [@ EXCEPT !.pc = "l510"]]
    /\ UNCHANGED sessionVars
\* Line 510: devices[dinfo.Id] = dinfo.
AddedStore(t) ==
    /\ disc.cb[t].pc = "l510"
    /\ disc' = [disc EXCEPT
                  !.devices = SetItem(@, disc.cb[t].id, disc.cb[t].info),
                  !.cb[t] = CbIdle]
    /\ UNCHANGED sessionVars

\* Lines 512-518: DeviceWatcher_Updated; the keys of devices are not changed.
DiscUpdated(t, id) == DiscDeliver(t, "Updated", id, "l514")
UpdatedDone(t) ==
    /\ disc.cb[t].pc = "l514"
    /\ disc' = [disc EXCEPT !.cb[t] = CbIdle]
    /\ UNCHANGED sessionVars

\* Line 520: DeviceWatcher_Removed is invoked.
DiscRemoved(t, id) == DiscDeliver(t, "Removed", id, "l522")
\* Lines 522-524: the log message reads devices[dinfo_update.Id], which
\* raises KeyError for an Id that is not in devices and ends the callback.
RemovedLog(t) ==
    /\ disc.cb[t].pc = "l522"
    /\ disc' = IF HasId(disc.cb[t].id)
               THEN [disc EXCEPT !.cb[t].pc = "l525"]
               ELSE [disc EXCEPT !.cb[t] = CbIdle, !.raised = "KeyError"]
    /\ UNCHANGED sessionVars
\* Line 525: if dinfo_update.Id in devices.
RemovedTest(t) ==
    /\ disc.cb[t].pc = "l525"
    /\ disc' = [disc EXCEPT
                  !.cb[t] = IF HasId(@.id) THEN [@ EXCEPT !.pc = "l526"] ELSE CbIdle]
    /\ UNCHANGED sessionVars
\* Line 526: devices.pop(dinfo_update.Id); KeyError when the Id is gone.
RemovedPop(t) ==
    /\ disc.cb[t].pc = "l526"
    /\ disc' = [disc EXCEPT
                  !.devices = Without(@, disc.cb[t].id),
                  !.raised = IF HasId(disc.cb[t].id) THEN @ ELSE "KeyError",
                  !.cb[t] = CbIdle]
    /\ UNCHANGED sessionVars

DiscCallback(t) ==
    \/ \E id \in DeviceIds : DiscAdded(t, id)
    \/ \E id \in DeviceIds : DiscUpdated(t, id)
    \/ \E id \in DeviceIds : DiscRemoved(t, id)
    \/ \E h \in {"Added", "Updated", "Removed"}, id \in DeviceIds :
          DiscOtherSender(t, h, id)
    \/ AddedTest(t)
    \/ AddedStore(t)
    \/ UpdatedDone(t)
    \/ RemovedLog(t)
    \/ RemovedTest(t)
    \/ RemovedPop(t)

NextDiscover ==
    \/ DiscRegister
    \/ DiscStart
    \/ DiscSleep
    \/ DiscStop
    \/ \E k \in 0..Len(DiscHandlers) : DiscDeregister(k)
    \/ DiscIter
    \/ DiscLoop
    \/ DiscStopped
    \/ \E t \in Threads : DiscCallback(t)

InitDiscover ==
    /\ mac = NoFilter
    /\ name = NoFilter
    /\ services = <<>>
    /\ timeout = 1
    /\ active_scan = TRUE
    /\ InitSession
    /\ probe = Unused
    /\ verdict = Unused
    /\ adv = Unused
    /\ disc = DiscoverCalled

SpecDiscover == InitDiscover /\ [][NextDiscover]_vars

\* A consuming caller: it never abandons the sequence and keeps asking for
\* the next item.  The event loop keeps running the generator and runs a due
\* timer; the timer of a positive timeout may still be far away.
NextConsuming ==
    \/ Step
    \/ \E t \in Threads, ev \in Events : Received(t, ev)

Consuming ==
    /\ WF_vars(Generator)
    /\ WF_vars(CallerNext)
    /\ WF_vars(TimerDue /\ StopScan)

SpecConsuming == Init /\ [][NextConsuming]_vars /\ Consuming

\* In addition the timer expires and the platform completes its transitions
\* Created -> Started and Stopping -> Stopped.  The event loop can run an
\* expired timer only while the generator is suspended, which it is again
\* and again (line 630), hence strong fairness for the timer.
SpecFair ==
    /\ SpecConsuming
    /\ SF_vars(StopScan)
    /\ WF_vars(PlatformStarted)
    /\ WF_vars(PlatformStopped)

\* ----------------------------------------------------------------- claims
Idle == \A t \in Threads : cbpc[t] = "idle"
InQueue(a) == \E i \in 1..Len(new_devices) : new_devices[i].address = a
WasEmitted(a) == \E i \in 1..Len(emitted) : emitted[i].address = a
Terminated == pc \in {"done", "cancelled", "raised"}

C2_Fifo == emitted = SubSeq(arrival, 1, Len(emitted))

\* C3: when the generator ends (the loop of line 627 is left), no device is
\* left in new_devices.
C3_DrainedAtEnd ==
    [][(pc # "done" /\ pc' = "done") => new_devices = <<>>]_vars

\* C4: with a negative timeout and a matching device sighted, the stop is
\* requested only after the first device was emitted, and exactly one device
\* is emitted.
C4_FirstMatchStops ==
    (timeout < 0 /\ (\E a \in Addrs : matched[a] > 0))
        => /\ Len(emitted) <= 1
           /\ (stopCalls > 0 => Len(emitted) = 1)

\* C5: when the watcher aborts from Started (no stop was requested), find()
\* does not end as a normal end of sequence.
C5_AbortIsError ==
    ~(pc = "done" /\ status = "Aborted" /\ stopCalls = 0)

\* C6: when the caller abandons the sequence while the watcher is Started,
\* the cancellation calls watcher.Stop().
C6_CancelStops ==
    [][(pc # "cancelled" /\ pc' = "cancelled" /\ status = "Started")
          => (stopCalls' = stopCalls + 1 /\ status' = "Stopping")]_vars

\* C7: whatever the interleaving of the callbacks on the worker threads, an
\* address is appended to new_devices at most once.
C7_AppendedOnce == \A a \in Addrs : Count(arrival, a) <= 1

\* C8: while the watcher status is Created, find() has not scheduled the stop
\* timer, is not in the polling loop and has emitted nothing.
C8_NotWhileCreated ==
    status = "Created" =>
        /\ timer = "unset"
        /\ emitted = <<>>
        /\ pc \in {"l520", "l606", "l621", "l622", "l623", "cancelled", "raised"}
\* find() is waiting at line 623 for the watcher to leave Created.
C8_Witness ==
    pc = "l623" /\ startCalled /\ status = "Created" /\ timer = "unset"

\* C9: with a non-negative timeout, a running event loop, a timer that
\* expires and a platform that completes its transitions, find() terminates.
C9_Terminates == (timeout >= 0) => <>Terminated
\* A session with a non-negative timeout that the timer stopped has ended.
C9_Witness ==
    timeout >= 0 /\ pc = "done" /\ timer = "fired" /\ status = "Stopped"

\* C10: a device queued while the watcher is Started is emitted to a
\* consuming caller unless the watcher leaves Started first: emission does
\* not wait for the watcher to stop.
C10_Lazy ==
    \A a \in Addrs :
        (InQueue(a) /\ status = "Started")
            ~> (WasEmitted(a) \/ status # "Started")
\* A device has been emitted while the watcher is still Started and no stop
\* was requested.
C10_Witness ==
    emitted # <<>> /\ status = "Started" /\ stopCalls = 0 /\ timer = "armed"

\* C11: a session arms one stop timer (line 625, on the way into the polling
\* loop), the timer is never armed again, and its expiry calls watcher.Stop()
\* once: the timer only goes unset -> armed -> fired, and Stop() is called
\* only by the step that fires it.
C11_OneTimer ==
    /\ [](stopCalls <= 1)
    /\ []((timer = "fired") <=> (stopCalls = 1))
    /\ [](pc \in {"l627", "l628", "l629", "l630", "done"} => timer # "unset")
    /\ [][
          /\ (timer' # timer) =>
                (\/ (timer = "unset" /\ timer' = "armed" /\ pc = "l625")
                 \/ (timer = "armed" /\ timer' = "fired"))
          /\ (stopCalls' # stopCalls) =>
                (/\ timer = "armed" /\ timer' = "fired"
                 /\ stopCalls' = stopCalls + 1
                 /\ status' = WatcherStop(status))
       ]_vars
\* The timer has expired, its one Stop() took the watcher from Started to
\* Stopped through Stopping, and the session has ended.
C11_Witness ==
    timer = "fired" /\ stopCalls = 1 /\ status = "Stopped" /\ pc = "done"

\* C12: once the sequence has ended (the loop of line 627 was left, or the
\* caller abandoned it), the callbacks of the session are deregistered and
\* the watcher has stopped, so that no callback changes devices or
\* new_devices any more.
C12_NoLateMutation ==
    [][(pc \in {"done", "cancelled"}) =>
         (devices' = devices /\ new_devices' = new_devices)]_vars

\* C13: once an address is recorded in devices, the device stored for it is
\* never replaced, and every device that was queued is the device stored for
\* its address: the device of the first matching sighting.
C13_FirstSightingKept ==
    /\ [][\A a \in Addrs :
             (a \in DOMAIN devices) =>
                 (a \in DOMAIN devices' /\ devices'[a] = devices[a])]_vars
    /\ [](\A i \in 1..Len(arrival) :
             /\ arrival[i].address \in DOMAIN devices
             /\ arrival[i] = devices[arrival[i].address])

\* What the filters ask for: the address and the name equal to (or matched
\* by) the filter, and every entry of the services filter found in (or
\* matching one of) the advertised services.
SatisfiesFilters(m, n, s, ev) ==
    /\ MacAccepts(m, ev)
    /\ NameAccepts(n, ev)
    /\ Len(s) > 0 =>
          /\ Len(ev.services) > 0
          /\ \A i \in 1..Len(s) :
                /\ IsStr(s[i]) => (s[i].val \in Range(ev.services))
                /\ IsPattern(s[i]) =>
                      (\E ds \in Range(ev.services) : Match(s[i], ds))
FromSatisfyingEvent(d) ==
    \E ev \in Events :
        BLEDevice(ev) = d /\ SatisfiesFilters(mac, name, services, ev)

\* C14: every device in devices or appended to new_devices was built from
\* an event that satisfies all the filters that are present (mac and name
\* and services).
C14_OnlyMatching ==
    /\ \A a \in DOMAIN devices : FromSatisfyingEvent(devices[a])
    /\ \A i \in 1..Len(arrival) : FromSatisfyingEvent(arrival[i])

NoFilters == ~Present(mac) /\ ~Present(name) /\ Len(services) = 0
RECURSIVE SumMatched(_)
SumMatched(S) ==
    IF S = {} THEN 0
    ELSE LET a == CHOOSE x \in S : TRUE
         IN  matched[a] + SumMatched(S \ {a})

\* C15: with mac, name and services all absent, every delivered event passes
\* the filters, and once the callbacks have returned every address that was
\* sighted is in devices and was appended to new_devices.
C15_NoFilterAcceptsAll ==
    NoFilters =>
        /\ SumMatched(Addrs) = delivered
        /\ Idle =>
              \A ev \in Events :
                  matched[ev.address] > 0 =>
                      /\ ev.address \in DOMAIN devices
                      /\ Count(arrival, ev.address) >= 1
\* Without filters three events were delivered and accepted, and the device
\* of the nameless advertisement of A1 and the device of A2 are recorded.
C15_Witness ==
    /\ NoFilters /\ Idle /\ delivered = MaxEvents
    /\ DOMAIN devices = Addrs
    /\ \E a \in Addrs : devices[a].name = ""
    /\ Len(arrival) >= 2

\* The event of the probe as the callback sees it, and whether the filter
\* code has been applied to it.
ProbeEvent == EventArgs(probe.event)
ProbeDone == verdict.stage = "received"
OtherDimensionsPass ==
    MacAccepts(verdict.mac, ProbeEvent) /\ NameAccepts(probe.name, ProbeEvent)
AllStr(s) == \A i \in 1..Len(s) : IsStr(s[i])

\* C16: for a services filter made of str entries, an event that passes the
\* mac and name filters is accepted if and only if every entry of the filter
\* is among the advertised services of the event.
C16_ExactServices ==
    (ProbeDone /\ Len(verdict.services) > 0 /\ AllStr(verdict.services)
       /\ OtherDimensionsPass)
        => (verdict.accepted <=>
              \A i \in 1..Len(verdict.services) :
                  verdict.services[i].val \in Range(ProbeEvent.services))

\* C17: an accepted event with a non-empty list of advertised services has,
\* for every compiled-pattern entry of the services filter, an advertised
\* service that the entry matches, whatever the name filter is.
C17_PatternServices ==
    (ProbeDone /\ verdict.accepted /\ Len(ProbeEvent.services) > 0)
        => \A i \in 1..Len(verdict.services) :
               IsPattern(verdict.services[i]) =>
                   \E ds \in Range(ProbeEvent.services) :
                       Match(verdict.services[i], ds)

\* C18: an event that advertises no service is not accepted when the
\* services filter is non-empty, whatever the kinds of its entries.
C18_NoServicesNoMatch ==
    (ProbeDone /\ Len(verdict.services) > 0 /\ Len(ProbeEvent.services) = 0)
        => ~verdict.accepted
\* A filter with only a pattern entry and no other filter was applied to an
\* event without services, and the event was ignored.
C18_Witness ==
    /\ ProbeDone /\ ~verdict.accepted
    /\ ~Present(probe.mac) /\ ~Present(probe.name)
    /\ Len(verdict.services) = 1 /\ IsPattern(verdict.services[1])
    /\ Len(ProbeEvent.services) = 0

\* C19: a services filter with one str entry that spells the UUID 0x180A,
\* short ("0x180A", "180A") or 128-bit (with or without "0x"), is
\* normalized to the 128-bit form and gives the verdict that the 128-bit
\* form gives; with a name filter that is not a pattern, an event that passes
\* the mac and name filters is accepted if and only if it advertises
\* 0000180a-0000-1000-8000-00805f9b34fb.
Spells180a ==
    /\ Len(probe.services) = 1
    /\ IsStr(probe.services[1])
    /\ probe.services[1].val \in Spellings180a
IsHexChar(c) == Lower(c) \in Range(HexChars)
HexValue(c) == CHOOSE d \in 0..15 : HexChars[d + 1] = Lower(c)
Denotes(s) ==
    LET h == SelectSeq(s, IsHexChar)
    IN  [i \in 1..Len(h) |-> HexValue(h[i])]
\* XX:XX:XX:XX:XX:XX for twelve hex digits.
Canonical(d) ==
    [i \in 1..17 |->
        IF i % 3 = 0 THEN ":"
        ELSE Upper(HexChars[d[i - (i \div 3)] + 1])]

\* C20: a str mac of 12 hex digits, in any letter case and with any
\* delimiters, is normalized to the upper-case colon-separated form of the
\* address it spells, and the normalized mac equals the address string of
\* an event if and only if the event's address is the one it spells.
C20_MacNormalized ==
    (verdict.stage \in {"checked", "received"} /\ IsStr(probe.mac)
       /\ Len(Denotes(probe.mac.val)) = AddressWidth)
        => /\ verdict.mac = Str(Show(Canonical(Denotes(probe.mac.val))))
           /\ (verdict.mac.val = ProbeEvent.address)
                 <=> (Denotes(probe.mac.val) = Pad12(probe.event.BluetoothAddress))
           /\ MacAccepts(verdict.mac, ProbeEvent)
                 <=> (Denotes(probe.mac.val) = Pad12(probe.event.BluetoothAddress))
\* "fa-bd:60d2_113a" was normalized to FA:BD:60:D2:11:3A and accepted an
\* event of that address.
C20_Witness ==
    /\ ProbeDone /\ verdict.accepted
    /\ probe.mac = Str(MacGiven)
    /\ verdict.mac.val = "FA:BD:60:D2:11:3A"
    /\ probe.event.BluetoothAddress = A1Num

\* A str mac that is used as a filter and does not spell twelve hex digits.
MalformedMac(m) ==
    IsStr(m) /\ Present(m) /\ Len(Denotes(m.val)) # AddressWidth

\* C21: a str mac that cannot be reduced to exactly 12 hex digits makes the
\* check of the filters raise: find() never goes on to scan with it.
C21_MalformedMacRejected ==
    (MalformedMac(probe.mac) /\ verdict.stage # "given")
        => verdict.stage = "raised"

OtherType(x) == x.kind \in {"invalid", "zero"}
OtherTypeGiven ==
    \/ OtherType(mac)
    \/ OtherType(name)
    \/ \E i \in 1..Len(services) : OtherType(services[i])

\* C22: when mac, name or an entry of services is neither None, a str nor a
\* pattern, find() raises in the check of the filters: it never creates the
\* watcher, registers no callback, does not call Start(), the watcher stays
\* Created and nothing is emitted.
C22_OtherTypeRaises ==
    OtherTypeGiven =>
        /\ pc \in {"l520", "raised"}
        /\ handlers = {}
        /\ ~startCalled
        /\ status = "Created"
        /\ emitted = <<>>

\* The event of adv has been through line 549 without an exception.
Decoded == adv.stage \in {"built", "appended"}
SectionsOf(t) ==
    SelectSeq(adv.args.DataSections, LAMBDA ds : ds.DataType = t)

\* C23: an event with a data section whose code is not in GAPDataType is
\* decoded all the same: line 549 does not raise, every section is kept in
\* data_sections with its code and payload, the other fields are decoded,
\* and the event goes on to be stored.
C23_UnknownSectionKept ==
    (adv.stage # "given"
       /\ \E i \in 1..Len(adv.args.DataSections) :
              adv.args.DataSections[i].DataType \notin GAPDataTypes)
        => /\ Decoded
           /\ Len(adv.event.advertisement.data_sections) = Len(adv.args.DataSections)
           /\ adv.event.advertisement.local_name = adv.args.LocalName

\* C24: when every Appearance section of an event has fewer than 2 payload
\* bytes the decoded appearance is absent, and when every Tx_Power_Level
\* section has no payload byte the decoded tx_power_level is absent.
C24_ShortPayloadAbsent ==
    Decoded =>
        /\ (\A i \in 1..Len(SectionsOf(Appearance)) :
                Len(SectionsOf(Appearance)[i].Data) < 2)
              => adv.event.advertisement.appearance = None
        /\ (\A i \in 1..Len(SectionsOf(Tx_Power_Level)) :
                Len(SectionsOf(Tx_Power_Level)[i].Data) = 0)
              => adv.event.advertisement.tx_power_level = None

\* C25: with one or more Appearance (Tx_Power_Level) sections the decoded
\* field is the number of the first of them in section order.
C25_FirstSectionWins ==
    Decoded =>
        /\ Len(SectionsOf(Appearance)) > 0
              => adv.event.advertisement.appearance =
                     Some(from_bytes_big(SectionsOf(Appearance)[1].Data))
        /\ Len(SectionsOf(Tx_Power_Level)) > 0
              => adv.event.advertisement.tx_power_level =
                     Some(from_bytes_big(SectionsOf(Tx_Power_Level)[1].Data))

\* The signed 8-bit number of a byte.
Int8(b) == IF b >= 128 THEN b - 256 ELSE b

\* C26: the one byte of the only Tx_Power_Level section is decoded as a
\* signed 8-bit number in -128..127, and the two bytes of the only
\* Appearance section as the unsigned big-endian number in 0..65535.
C26_SignedTxPower ==
    Decoded =>
        /\ (Len(SectionsOf(Tx_Power_Level)) = 1
              /\ Len(SectionsOf(Tx_Power_Level)[1].Data) = 1)
              => /\ adv.event.advertisement.tx_power_level =
                        Some(Int8(SectionsOf(Tx_Power_Level)[1].Data[1]))
                 /\ adv.event.advertisement.tx_power_level[1] \in -128..127
        /\ (Len(SectionsOf(Appearance)) = 1
              /\ Len(SectionsOf(Appearance)[1].Data) = 2)
              => /\ adv.event.advertisement.appearance =
                        Some(SectionsOf(Appearance)[1].Data[1] * 256
                               + SectionsOf(Appearance)[1].Data[2])
                 /\ adv.event.advertisement.appearance[1] \in 0..65535

RECURSIVE SumBits(_)
SumBits(S) ==
    IF S = {} THEN 0
    ELSE LET f == CHOOSE x \in S : TRUE
         IN  FlagBits[f] + SumBits(S \ {f})

\* C27: for every flags value v the platform reports, flags is a Flags value
\* that keeps v, and its named members are those of the five bits 1, 2, 4,
\* 8, 16 that are set in v: v is the sum of the bits of the members and of a
\* multiple of 32; 0x06 gives GENERAL_DISCOVERABLE_MODE and
\* CLASSIC_NOT_SUPPORTED.
C27_FlagsDecoded ==
    (Decoded /\ adv.args.Flags # None) =>
        /\ adv.event.advertisement.flags # None
        /\ adv.event.advertisement.flags[1].value = adv.args.Flags[1]
        /\ adv.args.Flags[1] =
              SumBits(adv.event.advertisement.flags[1].members)
                + 32 * (adv.args.Flags[1] \div 32)
        /\ adv.args.Flags[1] = 6 =>
              adv.event.advertisement.flags[1].members =
                  {"GENERAL_DISCOVERABLE_MODE", "CLASSIC_NOT_SUPPORTED"}

\* C28: the address string of an event is the six bytes of the 48-bit
\* platform address as pairs of upper-case hex digits joined by colons, 17
\* characters, leading zero bytes included; no other address has the same
\* string, and the device is stored under that string.
C28_AddressString ==
    Decoded =>
        /\ adv.event.bluetooth_address =
              Show(Canonical(Pad12(adv.args.BluetoothAddress)))
        /\ Len(adv.event.bluetooth_address) = 17
        /\ \A n \in DecodeAddrs :
              n # adv.args.BluetoothAddress
                  => AddressString(n) # adv.event.bluetooth_address
        /\ adv.stage = "appended"
              => adv.device = Some([address |-> adv.event.bluetooth_address,
                                    name |-> adv.args.LocalName])
\* The event of the address 0x001B60D2113B was stored under
\* 00:1B:60:D2:11:3B.
C28_Witness ==
    /\ adv.stage = "appended"
    /\ adv.args.BluetoothAddress = A2Num
    /\ adv.device[1].address = "00:1B:60:D2:11:3B"

ExactName == IsStr(name) /\ Present(name)
Nameless(d) == Len(d.name) = 0

\* C29: with a str name filter, the callback of an event without a local
\* name returns at line 566 without an error: no device without a name is
\* ever in a running callback, in devices or in new_devices, and a delivery
\* that is not accepted changes nothing but the count of deliveries, so the
\* session goes on with the later events.
C29_EmptyNameIgnored ==
    /\ [](ExactName =>
            /\ \A t \in Threads : cbpc[t] # "idle" => ~Nameless(cbarg[t])
            /\ \A a \in DOMAIN devices : ~Nameless(devices[a])
            /\ \A i \in 1..Len(arrival) : ~Nameless(arrival[i]))
    /\ [][(ExactName /\ delivered' = delivered + 1 /\ matched' = matched)
            => UNCHANGED <<argVars, genVars, watcherVars, new_devices, devices,
                           arrival, cbpc, cbarg>>]_vars
\* With the name filter "n1" and no other filter three events were
\* delivered; the nameless advertisement of A1 was ignored, its scan response
\* and the advertisement of A2 were accepted and their devices stored.
C29_Witness ==
    /\ ExactName /\ ~Present(mac) /\ Idle
    /\ delivered = MaxEvents
    /\ matched[A1] = 1 /\ matched[A2] = 1
    /\ DOMAIN devices = Addrs
    /\ Len(arrival) = 2

\* C30: in discover(), an exception of one of the removals of lines 556-560
\* is caught and logged: the step leaves devices as it is and goes on to
\* line 564, discover() never ends with that exception, and when the loop
\* of line 565 has run to its end discover() returns found with one entry
\* for every device that was in devices when the loop began.
C30_DeregisterRecovered ==
    /\ [][(disc.pc = "l555" /\ disc'.failed)
            => (/\ disc'.pc = "l564"
                /\ disc'.error = ""
                /\ disc'.devices = disc.devices
                /\ disc'.handlers # {})]_vars
    /\ [](disc.error # "deregister")
    /\ []((disc.failed /\ disc.pc = "returned")
            => (disc.error = "" /\ Len(disc.found) = disc.it.size))
\* The removal of the first handler failed, all five handlers are still
\* registered, and discover() returned the two devices it had collected.
C30_Witness ==
    /\ disc.failed /\ disc.pc = "returned"
    /\ disc.handlers = Range(DiscHandlers)
    /\ Keys(disc.found) = DeviceIds

\* The Ids whose latest notification of the watcher is Added, and no
\* callback running.
LastAdded == {id \in DeviceIds : disc.last[id] = "Added"}
DiscIdle == \A t \in Threads : disc.cb[t].pc = "idle"

\* C31: discover() returns one entry for each Id that was Added and not
\* Removed afterwards.  When the callbacks of the notifications delivered so
\* far have returned, the keys of devices are the Ids whose latest
\* notification is Added; a step that keeps a key keeps the object stored
\* under it (an Added for a present Id replaces nothing); a handler invoked
\* by another sender changes nothing; and the list returned at line 571
\* holds the values of devices, one for each key.
C31_AddedMinusRemoved ==
    /\ [](DiscIdle => Keys(disc.devices) = LastAdded)
    /\ [][\A i \in 1..Len(disc.devices) :
             \A j \in 1..Len(disc'.devices) :
                 (disc.devices[i].id = disc'.devices[j].id)
                     => (disc.devices[i].info = disc'.devices[j].info)]_vars
    /\ [][(disc'.delivered # disc.delivered /\ disc'.cb = disc.cb)
             => (disc' = [disc EXCEPT !.delivered = @ + 1])]_vars
    /\ [][(disc.pc = "l565" /\ disc'.pc = "returned")
             => (disc'.found = disc.devices)]_vars
    /\ [](disc.pc = "returned" =>
             (DiscIdle => Keys(disc.found) = LastAdded))

\* C32: normalizing the services filter twice gives what normalizing it once
\* gives: a second call of find() with the list that the first call rewrote
\* to 128-bit form does not raise, has the same services filter and gives
\* the same verdict for the event.
C32_NormalizeIdempotent ==
    (verdict.stage = "repeated")
        => /\ ~verdict.second[1].raised
           /\ verdict.second[1].services = verdict.services
           /\ verdict.second[1].accepted = verdict.accepted
\* "0x180A" became the 128-bit form in the first call, the second call was
\* given that form, and both calls accepted an event that advertises it.
C32_Witness ==
    /\ verdict.stage = "repeated"
    /\ probe.services = <<Str(Short180a)>>
    /\ verdict.second[1].services = <<Str(U180a)>>
    /\ verdict.second[1].accepted /\ verdict.accepted

\* C33: when watcher.Start() is called, both callbacks are registered and
\* the scanning mode is Active for active_scan and Passive otherwise; the
\* watcher leaves Created only after Start(), so that every advertisement
\* is delivered to a watcher that has the received callback of the session
\* and enters that callback (which, without filters, goes on to line 593).
C33_ReadyBeforeStart ==
    /\ [](startCalled =>
             /\ handlers = {"Received", "Stopped"}
             /\ ScanningMode = IF active_scan THEN "Active" ELSE "Passive")
    /\ [](status # "Created" => startCalled)
    /\ [][(delivered' # delivered)
             => (/\ startCalled /\ "Received" \in handlers
                 /\ ScanningMode = IF active_scan THEN "Active" ELSE "Passive"
                 /\ \E t \in Threads : cbpc'[t] = "l593")]_vars
\* A passive scan was started and an advertisement went through the
\* received callback into devices.
C33_Witness ==
    /\ startCalled /\ ~active_scan /\ ScanningMode = "Passive"
    /\ delivered > 0 /\ Idle /\ devices # <<>>

\* C34: every device in new_devices is the value that devices holds for
\* its address, no address occurs twice among the devices in new_devices and
\* the devices emitted, and no address is ever taken out of devices.
C34_QueueMatchesMap ==
    /\ [](\A i \in 1..Len(new_devices) :
             /\ new_devices[i].address \in DOMAIN devices
             /\ devices[new_devices[i].address] = new_devices[i])
    /\ [](\A a \in Addrs : Count(new_devices, a) + Count(emitted, a) <= 1)
    /\ [][DOMAIN devices \subseteq DOMAIN devices']_vars

\* C35: a Removed callback for an Id that is not in devices returns without
\* an exception and leaves devices as it is.
C35_UnknownRemoved ==
    [][\A t \in Threads :
          (/\ disc.cb[t].pc = "l522"
           /\ ~HasId(disc.cb[t].id)
           /\ disc'.cb[t].pc # "l522")
              => (disc'.raised = disc.raised /\ disc'.devices = disc.devices)]_vars

\* C36: from the start of the loop of line 565 on, while found is built, no
\* step of a callback changes devices.
C36_NoMutationInLoop ==
    [][(disc.pc = "l565") => (disc'.devices = disc.devices)]_vars

\* The offset from UTC of a platform timestamp in minutes, and the instant
\* a local time with an offset denotes, in minutes of UTC from the
\* midnight of its date.
OffsetMinutes(t) == 60 * t.Offset.Hours + t.Offset.Minutes
Instant(h, m, offset) == 60 * h + m - offset

\* C37: the timestamp of the event has the UTC offset of the platform's
\* timestamp, also when the offset has a minutes part, and denotes the same
\* instant.
C37_TimezoneKept ==
    Decoded =>
        /\ adv.event.timestamp.utcoffset = OffsetMinutes(adv.args.Timestamp)
        /\ Instant(adv.event.timestamp.hour, adv.event.timestamp.minute,
                   adv.event.timestamp.utcoffset)
             = Instant(adv.args.Timestamp.Hour, adv.args.Timestamp.Minute,
                       OffsetMinutes(adv.args.Timestamp))

====
